---- MODULE Spec2Model ----
(***************************************************************************)
(* Model of Insight (src/main.py): the get_video_summary pipeline and the  *)
(* filter_captions text filter.  Python strings are sequences of           *)
(* one-character strings, so that strip, split, join and the substring     *)
(* tests are computed as the interpreter computes them.                    *)
(***************************************************************************)
EXTENDS Integers, Sequences, FiniteSets, TLC

VARIABLES title, CLIPBOARD_AVAILABLE, clipboard,
          pc, mode, copy_to_clipboard, video_info, captions,
          filtered_captions, prompt, response, ret,
          calls, titleAtResolve, warned, rendered,
          metaResult, capResult, sumResult,
          fsource, entries, srt, text_out, fpc

pvars == <<title, CLIPBOARD_AVAILABLE, clipboard,
           pc, mode, copy_to_clipboard, video_info, captions,
           filtered_captions, prompt, response, ret,
           calls, titleAtResolve, warned, rendered,
           metaResult, capResult, sumResult>>

fvars == <<fsource, entries, srt, text_out, fpc>>

vars == <<pvars, fvars>>

\* Python's None where a string is expected: no string of characters equals it
None == <<"None">>
\* get_video_info returning None
NoInfo == [kind |-> "None"]

----------------------------------------------------------------------------
(* Bounds *)

\* longest caption text of an entry in the filter specification
MaxTextLen == 2
\* most entries of a transcript in the filter specification
MaxEntries == 2
\* longest raw caption string handed directly to filter_captions
MaxRawLen == 4

----------------------------------------------------------------------------
(* Python string primitives *)

\* str.strip() with no argument removes these (the ones the model's strings use)
Whitespace == {" ", "\n", "\t", "\r"}

RECURSIVE LStrip(_)
LStrip(s) == IF s # <<>> /\ Head(s) \in Whitespace THEN LStrip(Tail(s)) ELSE s

RECURSIVE RStrip(_)
RStrip(s) == IF s # <<>> /\ s[Len(s)] \in Whitespace
             THEN RStrip(SubSeq(s, 1, Len(s) - 1)) ELSE s

Strip(s) == RStrip(LStrip(s))

\* s.split(sep) for a one-character separator: always at least one piece
RECURSIVE SplitAcc(_, _, _)
SplitAcc(s, sep, cur) ==
    IF s = <<>> THEN <<cur>>
    ELSE IF Head(s) = sep THEN <<cur>> \o SplitAcc(Tail(s), sep, <<>>)
    ELSE SplitAcc(Tail(s), sep, Append(cur, Head(s)))

Split(s, sep) == SplitAcc(s, sep, <<>>)

\* sep.join(parts)
RECURSIVE Join(_, _)
Join(sep, parts) ==
    IF parts = <<>> THEN <<>>
    ELSE IF Len(parts) = 1 THEN parts[1]
    ELSE parts[1] \o sep \o Join(sep, Tail(parts))

\* needle in s
Contains(needle, s) ==
    \E i \in 0..(Len(s) - Len(needle)) : SubSeq(s, i + 1, i + Len(needle)) = needle

\* s.replace(a, b) for one-character a and b
Replace(s, a, b) == [i \in 1..Len(s) |-> IF s[i] = a THEN b ELSE s[i]]

Digit(d) == CASE d = 0 -> "0" [] d = 1 -> "1" [] d = 2 -> "2" [] d = 3 -> "3"
              [] d = 4 -> "4" [] d = 5 -> "5" [] d = 6 -> "6" [] d = 7 -> "7"
              [] d = 8 -> "8" [] d = 9 -> "9"

RECURSIVE NatStr(_)
NatStr(n) == IF n < 10 THEN <<Digit(n)>> ELSE NatStr(n \div 10) \o <<Digit(n % 10)>>

\* f"{x}" of a float with an integral value n (repr gives "n.0")
FloatStr(n) == NatStr(n) \o <<".", "0">>

----------------------------------------------------------------------------
(* Program constants *)

COLOR_RESET == <<"ESC", "[", "0", "m">>
COLOR_RED == <<"ESC", "[", "3", "1", "m">>
ICON_ERROR == <<"ICON_ERROR">>

\* " An error occurred: " of download_captions' except branch
CaptionErrorText == <<" ", "A", "n", " ", "e", "r", "r", "o", "r", " ", "o", "c", "c",
                      "u", "r", "r", "e", "d", ":", " ">>
\* "Error occurred", the substring get_video_summary looks for in the captions
CaptionErrorNeedle == <<"E", "r", "r", "o", "r", " ", "o", "c", "c", "u", "r", "r", "e", "d">>
\* " Error fetching GPT-3 response: " of fetch_gpt3_response's except branch
GptErrorText == <<" ", "E", "r", "r", "o", "r", " ", "f", "e", "t", "c", "h", "i", "n", "g",
                  " ", "G", "P", "T", "-", "3", " ", "r", "e", "s", "p", "o", "n", "s", "e",
                  ":", " ">>
\* "Error fetching GPT-3 response", the substring looked for in the response
GptErrorNeedle == <<"E", "r", "r", "o", "r", " ", "f", "e", "t", "c", "h", "i", "n", "g",
                    " ", "G", "P", "T", "-", "3", " ", "r", "e", "s", "p", "o", "n", "s", "e">>
Arrow == <<" ", "-", "-", ">", " ">>

----------------------------------------------------------------------------
(* download_captions and filter_captions *)

\* one iteration of the loop of download_captions: the three lines of an entry
SrtBlock(entry) ==
    FloatStr(entry.start) \o Arrow \o FloatStr(entry.start + entry.duration) \o <<"\n">>
    \o Replace(entry.text, "\n", " ") \o <<"\n", "\n">>

\* the try branch of download_captions: srt_captions for a transcript
RECURSIVE SrtCaptions(_)
SrtCaptions(transcript) ==
    IF transcript = <<>> THEN <<>>
    ELSE SrtBlock(Head(transcript)) \o SrtCaptions(Tail(transcript))

\* the except branch of download_captions: the message for exception text e
CaptionErrorMessage(e) == COLOR_RED \o ICON_ERROR \o CaptionErrorText \o e \o COLOR_RESET

\* download_captions, given what YouTubeTranscriptApi.get_transcript did
download_captions(api) ==
    IF api.raised THEN CaptionErrorMessage(api.e) ELSE SrtCaptions(api.transcript)

\* lines = captions.strip().split("\n")
CaptionLines(c) == Split(Strip(c), "\n")

\* [line for i, line in enumerate(lines) if (i - 1) % 3 == 0]
RECURSIVE SelectTextLines(_, _)
SelectTextLines(lines, i) ==
    IF lines = <<>> THEN <<>>
    ELSE (IF (i - 1) % 3 = 0 THEN <<Head(lines)>> ELSE <<>>)
         \o SelectTextLines(Tail(lines), i + 1)

filter_captions(c) == Join(<<" ">>, SelectTextLines(CaptionLines(c), 0))

----------------------------------------------------------------------------
(* fetch_gpt3_response and the prompt generators *)

\* a message that no longer carries the text get_video_summary looks for
GptErrorMessage_Reworded(e) == COLOR_RED \o ICON_ERROR \o <<" ">> \o e \o COLOR_RESET

\* the except branch of fetch_gpt3_response: the message for exception text e
GptErrorMessage(e) == COLOR_RED \o ICON_ERROR \o GptErrorText \o e \o COLOR_RESET

\* fetch_gpt3_response, given what client.chat.completions.create did
fetch_gpt3_response(api) ==
    IF api.raised THEN GptErrorMessage(api.e) ELSE Strip(api.content)

\* The fixed parts of the two templates are kept as whole pieces of text;
\* the title and the captions are spliced in character by character.
generate_standart_prompt(video_title, filtered) ==
    <<"Please summarize the following video script in a few sentences. The name of the YouTube Video is ">>
    \o video_title
    \o <<". Filter out only the information [...] Don't leave out any facts in the video. ",
         "Simply lay out the explained information for easy digestion. ",
         "Here is the related video script:\n\n">>
    \o filtered
    \o <<"\n\nSummary:">>

generate_bulletpoint_prompt(video_title, filtered) ==
    <<"Please summarize the following video script in concise bullet points using markdown syntax. The name of the YouTube Video is ">>
    \o video_title
    \o <<". Filter out only the information [...] Don't leave out any facts in the video. ",
         "Simply lay out the explained information in bullet points for easy digestion and markdown formatting. ",
         "Here is the related video script:\n\n">>
    \o filtered
    \o <<"\n\nSummary in bullet points and markdown syntax:">>

\* an else branch that falls back to the other template
PromptGenerator_FallbackBullet(m) ==
    IF m = "standart" THEN "generate_standart_prompt"
    ELSE "generate_bulletpoint_prompt"

\* the if / elif / else on mode in get_video_summary
PromptGenerator(m) ==
    IF m = "standart" THEN "generate_standart_prompt"
    ELSE IF m = "bulletpoint" THEN "generate_bulletpoint_prompt"
    ELSE "generate_standart_prompt"

BuildPromptFor(m, video_title, filtered) ==
    IF PromptGenerator(m) = "generate_standart_prompt"
    THEN generate_standart_prompt(video_title, filtered)
    ELSE generate_bulletpoint_prompt(video_title, filtered)

\* the else branch prints "Unknown mode selected"
UnknownModeWarning(m) == m # "standart" /\ m # "bulletpoint"

----------------------------------------------------------------------------
(* Inputs of the pipeline *)

Runs == {"run1", "run2"}

S_A == <<"A">>
S_B == <<"B">>
Titles == {S_A, S_B}
VideoId == <<"i", "d">>

\* argparse restricts --mode, a direct caller of get_video_summary does not
Modes == {"standart", "bulletpoint", "other"}

\* what get_video_info returns: the parsed yt-dlp record, or None
MetaOutcomes == {NoInfo} \cup {[kind |-> "dict", title |-> t, id |-> VideoId] : t \in Titles}

\* what YouTubeTranscriptApi.get_transcript does: raise, or return entries
CaptionExcMsgs == { <<"n", "o">>, CaptionErrorNeedle }
PipelineTranscripts ==
    { <<[start |-> 0, duration |-> 2, text |-> <<"H", "i">>]>>,
      <<[start |-> 0, duration |-> 2, text |-> CaptionErrorNeedle]>> }
CaptionApiOutcomes ==
    {[raised |-> TRUE, e |-> m, transcript |-> <<>>] : m \in CaptionExcMsgs}
    \cup {[raised |-> FALSE, e |-> <<>>, transcript |-> t] : t \in PipelineTranscripts}

\* what client.chat.completions.create does: raise, or return a message content
GptExcMsgs == { <<"4", "2", "9">> }
GptContents == { <<"S", " ">>, <<" ">>, GptErrorNeedle }
GptApiOutcomes ==
    {[raised |-> TRUE, e |-> m, content |-> <<>>] : m \in GptExcMsgs}
    \cup {[raised |-> FALSE, e |-> <<>>, content |-> c] : c \in GptContents}

NotReturned == <<"NotReturned">>

\* "if not video_info"
Falsy(info) == info.kind = "None"

----------------------------------------------------------------------------
(* Inputs of the caption filter *)

RECURSIVE StringsUpTo(_, _)
StringsUpTo(A, n) == IF n = 0 THEN {<<>>}
                     ELSE StringsUpTo(A, n - 1) \cup [1..n -> A]

TextAlphabet == {"a", " ", "\n"}
Timings == {[start |-> 0, duration |-> 2], [start |-> 9, duration |-> 1]}
Entries == {[start |-> t.start, duration |-> t.duration, text |-> x] :
              t \in Timings, x \in StringsUpTo(TextAlphabet, MaxTextLen)}
Transcripts == UNION {[1..k -> Entries] : k \in 0..MaxEntries}
RawCaptions == StringsUpTo(TextAlphabet, MaxRawLen)

----------------------------------------------------------------------------
(* get_video_summary, one action per stage of a run *)

PipeInit ==
    /\ title = <<>>
    /\ CLIPBOARD_AVAILABLE \in BOOLEAN
    /\ clipboard = None
    /\ pc = [r \in Runs |-> "Start"]
    /\ mode = [r \in Runs |-> "unset"]
    /\ copy_to_clipboard = [r \in Runs |-> FALSE]
    /\ video_info = [r \in Runs |-> NoInfo]
    /\ captions = [r \in Runs |-> None]
    /\ filtered_captions = [r \in Runs |-> None]
    /\ prompt = [r \in Runs |-> None]
    /\ response = [r \in Runs |-> None]
    /\ ret = [r \in Runs |-> NotReturned]
    /\ calls = [r \in Runs |-> <<>>]
    /\ titleAtResolve = [r \in Runs |-> None]
    /\ warned = [r \in Runs |-> FALSE]
    /\ rendered = [r \in Runs |-> None]
    /\ metaResult = [r \in Runs |-> "pending"]
    /\ capResult = [r \in Runs |-> "pending"]
    /\ sumResult = [r \in Runs |-> "pending"]

FilterIdle == fsource = "idle" /\ entries = <<>> /\ srt = None /\ text_out = None /\ fpc = "idle"

Init == PipeInit /\ FilterIdle

\* get_video_summary without the return of line 194
ResolveMetadata_NoShortCircuit(r) ==
    /\ pc[r] = "Start"
    /\ \E m \in Modes, c \in BOOLEAN, info \in MetaOutcomes :
        /\ mode' = [mode EXCEPT ![r] = m]
        /\ copy_to_clipboard' = [copy_to_clipboard EXCEPT ![r] = c]
        /\ video_info' = [video_info EXCEPT ![r] = info]
        /\ calls' = [calls EXCEPT ![r] = Append(@, "get_video_info")]
        /\ pc' = [pc EXCEPT ![r] = "MetadataFetched"]
        /\ IF Falsy(info)
           THEN /\ metaResult' = [metaResult EXCEPT ![r] = "fail"]
                /\ UNCHANGED <<title, titleAtResolve>>
           ELSE /\ metaResult' = [metaResult EXCEPT ![r] = "ok"]
                /\ title' = info.title
                /\ titleAtResolve' = [titleAtResolve EXCEPT ![r] = info.title]
    /\ UNCHANGED <<CLIPBOARD_AVAILABLE, clipboard, captions, filtered_captions,
                   prompt, response, ret, warned, rendered, capResult, sumResult, fvars>>

\* lines 189-198: the call, get_video_info, the test and the write of title
ResolveMetadata(r) ==
    /\ pc[r] = "Start"
    /\ \E m \in Modes, c \in BOOLEAN, info \in MetaOutcomes :
        /\ mode' = [mode EXCEPT ![r] = m]
        /\ copy_to_clipboard' = [copy_to_clipboard EXCEPT ![r] = c]
        /\ video_info' = [video_info EXCEPT ![r] = info]
        /\ calls' = [calls EXCEPT ![r] = Append(@, "get_video_info")]
        /\ IF Falsy(info)
           THEN /\ metaResult' = [metaResult EXCEPT ![r] = "fail"]
                /\ ret' = [ret EXCEPT ![r] = None]
                /\ pc' = [pc EXCEPT ![r] = "Aborted"]
                /\ UNCHANGED <<title, titleAtResolve>>
           ELSE /\ metaResult' = [metaResult EXCEPT ![r] = "ok"]
                /\ title' = info.title
                /\ titleAtResolve' = [titleAtResolve EXCEPT ![r] = info.title]
                /\ pc' = [pc EXCEPT ![r] = "MetadataFetched"]
                /\ UNCHANGED ret
    /\ UNCHANGED <<CLIPBOARD_AVAILABLE, clipboard, captions, filtered_captions,
                   prompt, response, warned, rendered, capResult, sumResult, fvars>>

\* lines 200-205: download_captions and the test for "Error occurred"
FetchCaptions(r) ==
    /\ pc[r] = "MetadataFetched"
    /\ \E api \in CaptionApiOutcomes :
        LET c == download_captions(api) IN
        /\ captions' = [captions EXCEPT ![r] = c]
        /\ capResult' = [capResult EXCEPT ![r] = IF api.raised THEN "fail" ELSE "ok"]
        /\ calls' = [calls EXCEPT ![r] = Append(@, "download_captions")]
        /\ IF Contains(CaptionErrorNeedle, c)
           THEN /\ ret' = [ret EXCEPT ![r] = None]
                /\ pc' = [pc EXCEPT ![r] = "Aborted"]
           ELSE /\ pc' = [pc EXCEPT ![r] = "CaptionsFetched"]
                /\ UNCHANGED ret
    /\ UNCHANGED <<title, CLIPBOARD_AVAILABLE, clipboard, mode, copy_to_clipboard,
                   video_info, filtered_captions, prompt, response, titleAtResolve,
                   warned, rendered, metaResult, sumResult, fvars>>

\* lines 207-208
FilterCaptions(r) ==
    /\ pc[r] = "CaptionsFetched"
    /\ filtered_captions' = [filtered_captions EXCEPT ![r] = filter_captions(captions[r])]
    /\ calls' = [calls EXCEPT ![r] = Append(@, "filter_captions")]
    /\ pc' = [pc EXCEPT ![r] = "Filtered"]
    /\ UNCHANGED <<title, CLIPBOARD_AVAILABLE, clipboard, mode, copy_to_clipboard,
                   video_info, captions, prompt, response, ret, titleAtResolve,
                   warned, rendered, metaResult, capResult, sumResult, fvars>>

\* lines 210-216: the prompt is built from the global title
BuildPrompt(r) ==
    /\ pc[r] = "Filtered"
    /\ prompt' = [prompt EXCEPT ![r] = BuildPromptFor(mode[r], title, filtered_captions[r])]
    /\ warned' = [warned EXCEPT ![r] = UnknownModeWarning(mode[r])]
    /\ calls' = [calls EXCEPT ![r] = Append(@, PromptGenerator(mode[r]))]
    /\ pc' = [pc EXCEPT ![r] = "PromptBuilt"]
    /\ UNCHANGED <<title, CLIPBOARD_AVAILABLE, clipboard, mode, copy_to_clipboard,
                   video_info, captions, filtered_captions, response, ret,
                   titleAtResolve, rendered, metaResult, capResult, sumResult, fvars>>

\* a get_video_summary that asks again when the response is an error
FetchSummary_Retry(r) ==
    /\ pc[r] = "PromptBuilt"
    /\ Len(calls[r]) < 8
    /\ \E api \in GptApiOutcomes :
        LET resp == fetch_gpt3_response(api) IN
        /\ response' = [response EXCEPT ![r] = resp]
        /\ sumResult' = [sumResult EXCEPT ![r] = IF api.raised THEN "fail" ELSE "ok"]
        /\ calls' = [calls EXCEPT ![r] = Append(@, "fetch_gpt3_response")]
        /\ pc' = [pc EXCEPT ![r] = IF Contains(GptErrorNeedle, resp)
                                   THEN "PromptBuilt" ELSE "SummaryFetched"]
    /\ UNCHANGED <<title, CLIPBOARD_AVAILABLE, clipboard, mode, copy_to_clipboard,
                   video_info, captions, filtered_captions, prompt, ret, titleAtResolve,
                   warned, rendered, metaResult, capResult, fvars>>

\* lines 218-223: fetch_gpt3_response and the test for its error text
FetchSummary(r) ==
    /\ pc[r] = "PromptBuilt"
    /\ \E api \in GptApiOutcomes :
        LET resp == fetch_gpt3_response(api) IN
        /\ response' = [response EXCEPT ![r] = resp]
        /\ sumResult' = [sumResult EXCEPT ![r] = IF api.raised THEN "fail" ELSE "ok"]
        /\ calls' = [calls EXCEPT ![r] = Append(@, "fetch_gpt3_response")]
        /\ IF Contains(GptErrorNeedle, resp)
           THEN /\ ret' = [ret EXCEPT ![r] = None]
                /\ pc' = [pc EXCEPT ![r] = "Aborted"]
           ELSE /\ pc' = [pc EXCEPT ![r] = "SummaryFetched"]
                /\ UNCHANGED ret
    /\ UNCHANGED <<title, CLIPBOARD_AVAILABLE, clipboard, mode, copy_to_clipboard,
                   video_info, captions, filtered_captions, prompt, titleAtResolve,
                   warned, rendered, metaResult, capResult, fvars>>

\* lines 225-248: print the summary, copy it if asked and possible, return it
Present(r) ==
    /\ pc[r] = "SummaryFetched"
    /\ rendered' = [rendered EXCEPT ![r] = response[r]]
    /\ IF copy_to_clipboard[r] /\ CLIPBOARD_AVAILABLE
       THEN /\ clipboard' = response[r]
            /\ calls' = [calls EXCEPT ![r] = @ \o <<"render", "pyperclip.copy">>]
       ELSE /\ calls' = [calls EXCEPT ![r] = Append(@, "render")]
            /\ UNCHANGED clipboard
    /\ ret' = [ret EXCEPT ![r] = response[r]]
    /\ pc' = [pc EXCEPT ![r] = "Done"]
    /\ UNCHANGED <<title, CLIPBOARD_AVAILABLE, mode, copy_to_clipboard, video_info,
                   captions, filtered_captions, prompt, response, titleAtResolve,
                   warned, metaResult, capResult, sumResult, fvars>>

RunStep(r) == \/ ResolveMetadata(r)
              \/ FetchCaptions(r)
              \/ FilterCaptions(r)
              \/ BuildPrompt(r)
              \/ FetchSummary(r)
              \/ Present(r)

Next == \E r \in Runs : RunStep(r)

Spec == Init /\ [][Next]_vars

----------------------------------------------------------------------------
(* The caption filter on its own: download_captions' formatting, then       *)
(* filter_captions, over bounded transcripts and bounded raw strings        *)

FilterInit ==
    /\ PipeInit
    /\ text_out = None
    /\ \/ fsource = "transcript" /\ entries \in Transcripts /\ srt = None /\ fpc = "format"
       \/ fsource = "raw" /\ entries = <<>> /\ srt \in RawCaptions /\ fpc = "filter"

\* lines 84-91
FormatCaptions ==
    /\ fpc = "format"
    /\ srt' = SrtCaptions(entries)
    /\ fpc' = "filter"
    /\ UNCHANGED <<fsource, entries, text_out, pvars>>

\* lines 105-107
ApplyFilter ==
    /\ fpc = "filter"
    /\ text_out' = filter_captions(srt)
    /\ fpc' = "done"
    /\ UNCHANGED <<fsource, entries, srt, pvars>>

FilterNext == FormatCaptions \/ ApplyFilter

FilterSpec == FilterInit /\ [][FilterNext]_vars

----------------------------------------------------------------------------
(* Properties *)

Called(r, f) == \E i \in 1..Len(calls[r]) : calls[r][i] = f

Terminated(r) == pc[r] \in {"Done", "Aborted"}

OtherRun(r) == CHOOSE q \in Runs : q # r

\* C1: when download_captions caught an exception, the run never calls
\* fetch_gpt3_response and, once over, is Aborted and has returned None.
C1_CaptionFailureAborts ==
    \A r \in Runs : capResult[r] = "fail" =>
        /\ ~Called(r, "fetch_gpt3_response")
        /\ Terminated(r) => (pc[r] = "Aborted" /\ ret[r] = None)

\* C3: when get_video_info, download_captions and fetch_gpt3_response all
\* succeeded, the run is not aborted and returns the text fetch_gpt3_response
\* returned.
C3_SuccessReturnsSummary ==
    \A r \in Runs :
        (metaResult[r] = "ok" /\ capResult[r] = "ok" /\ sumResult[r] = "ok") =>
            /\ pc[r] \in {"SummaryFetched", "Done"}
            /\ pc[r] = "Done" => ret[r] = response[r]

\* the messages of the two except branches start with the red error icon
IsErrorMessage(s) ==
    LET p == COLOR_RED \o ICON_ERROR IN Len(s) >= Len(p) /\ SubSeq(s, 1, Len(p)) = p

\* C4: a run that is over returned None or a non-empty string that is not
\* an error message.
C4_NoneOrNonEmptySummary ==
    \A r \in Runs : Terminated(r) =>
        \/ ret[r] = None
        \/ ret[r] # NotReturned /\ ret[r] # <<>> /\ ~IsErrorMessage(ret[r])

\* the text line download_captions wrote for each entry
BlockTexts(tr) == [i \in 1..Len(tr) |-> Replace(tr[i].text, "\n", " ")]

\* C5: for the captions download_captions builds from n entries,
\* filter_captions returns the n text lines joined by single spaces.
C5_OneFragmentPerBlock ==
    (fsource = "transcript" /\ fpc = "done") =>
        text_out = Join(<<" ">>, BlockTexts(entries))

\* C6: filter_captions returns the lines of its input at indices 1, 4, 7, ...
\* (0-based), joined by single spaces.
C6_PositionalSelection ==
    fpc = "done" => text_out = Join(<<" ">>, SelectTextLines(Split(srt, "\n"), 0))

\* C9: the prompt a run sent to fetch_gpt3_response embeds the title that
\* get_video_info returned in that run.
C9_TitleOfOwnRun ==
    \A r \in Runs : Called(r, "fetch_gpt3_response") =>
        prompt[r] = BuildPromptFor(mode[r], titleAtResolve[r], filtered_captions[r])

----------------------------------------------------------------------------
(* Properties that hold *)

\* C2: when get_video_info returned None the run is Aborted with result None,
\* get_video_info is the only thing it called, and it did not write the global
\* title (which keeps its initial value unless the other run resolved a title).
C2_MetadataFailureShortCircuits ==
    \A r \in Runs : metaResult[r] = "fail" =>
        /\ pc[r] = "Aborted"
        /\ ret[r] = None
        /\ calls[r] = <<"get_video_info">>
        /\ rendered[r] = None
        /\ titleAtResolve[r] = None
        /\ metaResult[OtherRun(r)] # "ok" => title = <<>>

C2_Witness ==
    \E r \in Runs :
        /\ metaResult[r] = "fail" /\ pc[r] = "Aborted"
        /\ pc[OtherRun(r)] = "Done" /\ title = titleAtResolve[OtherRun(r)]

\* C7: building the prompt for a mode other than "standart" and "bulletpoint"
\* gives the prompt generate_standart_prompt gives for the same title and
\* captions, sets the warning and leaves the run at PromptBuilt with nothing
\* returned; such a run that got past the filter and is over called
\* fetch_gpt3_response.
C7_UnknownModeFallsBack ==
    /\ [][\A r \in Runs : (BuildPrompt(r) /\ UnknownModeWarning(mode[r])) =>
            /\ prompt'[r] = generate_standart_prompt(title, filtered_captions[r])
            /\ warned'[r]
            /\ pc'[r] = "PromptBuilt"
            /\ ret'[r] = NotReturned]_vars
    /\ [](\A r \in Runs :
            (UnknownModeWarning(mode[r]) /\ Called(r, "filter_captions") /\ Terminated(r))
                => (warned[r] /\ Called(r, "fetch_gpt3_response")))

C7_Witness ==
    \E r \in Runs : /\ mode[r] = "other" /\ warned[r] /\ pc[r] = "Done"
                    /\ Called(r, "fetch_gpt3_response")

\* C8: when fetch_gpt3_response caught an exception the run is Aborted with
\* result None, nothing was rendered and pyperclip.copy was not called.
C8_SummarizerFailureAborts ==
    \A r \in Runs : sumResult[r] = "fail" =>
        /\ pc[r] = "Aborted"
        /\ ret[r] = None
        /\ rendered[r] = None
        /\ ~Called(r, "render")
        /\ ~Called(r, "pyperclip.copy")

C8_Witness ==
    \E r \in Runs : /\ sumResult[r] = "fail" /\ pc[r] = "Aborted"
                    /\ copy_to_clipboard[r] /\ CLIPBOARD_AVAILABLE

\* the calls of a complete run, in the order of the code
StageOrder(m) == <<"get_video_info", "download_captions", "filter_captions",
                   PromptGenerator(m), "fetch_gpt3_response", "render", "pyperclip.copy">>

IsPrefix(a, b) == Len(a) <= Len(b) /\ SubSeq(b, 1, Len(a)) = a

\* One invocation on its own.  Each stage blocks until its collaborator
\* returns and the program has no loop around a stage, so a run that can take
\* its next step takes it.
SingleRunNext == RunStep("run1")

SingleRunSpec == Init /\ [][SingleRunNext]_vars /\ WF_vars(SingleRunNext)

\* C10: the calls of a run are always a prefix of the fixed stage order (so each
\* stage runs at most once and in order), a run is over exactly when it has
\* returned (Done after rendering, Aborted with None otherwise), and every run
\* that was started ends up Done or Aborted.
C10_LinearNoRetry ==
    /\ [](\A r \in Runs :
            /\ IsPrefix(calls[r], StageOrder(mode[r]))
            /\ Terminated(r) <=> ret[r] # NotReturned
            /\ pc[r] = "Done" => Called(r, "render")
            /\ pc[r] = "Aborted" => (ret[r] = None /\ ~Called(r, "render")))
    /\ \A r \in Runs : (pc[r] # "Start") ~> Terminated(r)

C10_Witness ==
    \E r \in Runs : pc[r] = "Done" /\ calls[r] = StageOrder(mode[r]) /\ ret[r] = response[r]

====
